---- MODULE Spec2Model ----
(***************************************************************************)
(* PodcastRepeater.py: the feed-to-site pipeline make_site, run one or     *)
(* more times against the same remote feed and the same output directory.  *)
(*                                                                         *)
(* A parsed feed is the nested mapping xmltodict returns; a missing key is *)
(* modelled by a "has" flag (or a tag) instead of an absent field, so that *)
(* every value of one kind has one shape.  Episodes are references (item   *)
(* indices) into the parsed feed, as in the source, where process_episodes *)
(* appends the item objects themselves.                                    *)
(***************************************************************************)
EXTENDS Integers, Sequences, FiniteSets, TLC

VARIABLES
    remote,      \* the document the feed URL serves (fixed over the runs)
    fs,          \* output directory: file path -> content
    dirs,        \* output directory: the directories that exist
    pc,          \* position of make_site
    i,           \* loop position of download_audio_files / render_episodes
    podcast,     \* make_site's local 'podcast'
    episodes,    \* make_site's local 'episodes': indices into podcast.items
    run,         \* number of the current run of the program
    err,         \* the exception that ended the run, "none" otherwise
    log,         \* history: GET, PARSE and WRITE events of the current run
    stages,      \* history: the stages of make_site begun in the current run
    parsed0,     \* history: the feed as download_and_parse_feed returned it
    feedStatus,  \* history: outcome of the feed GET of the current run
    extractErr,  \* history: what process_episodes raised in the current run
    fsStart,     \* history: fs when the current run started
    prev         \* history: how the previous run ended

vars == <<remote, fs, dirs, pc, i, podcast, episodes, run, err, log, stages,
          parsed0, feedStatus, extractErr, fsStart, prev>>

-----------------------------------------------------------------------------
(* Bounds *)

MaxItems == 2
MaxRuns == 2

-----------------------------------------------------------------------------
(* URLs, as urlparse splits them *)

NoUrl == [host |-> "", path |-> <<>>, query |-> ""]
FeedUrl == [host |-> "feeds.example", path |-> <<"rss">>, query |-> ""]
CoverUrl == [host |-> "cdn.example", path |-> <<"cover.png">>, query |-> ""]
UrlA == [host |-> "cdn.example", path |-> <<"a", "ep.mp3">>, query |-> "token=abc"]
UrlB == [host |-> "cdn.example", path |-> <<"b", "ep.mp3">>, query |-> ""]
UrlD == [host |-> "cdn.example", path |-> <<"d", "other.mp3">>, query |-> ""]

UrlPath(u) == u.path

Basename(p) == IF p = <<>> THEN "" ELSE p[Len(p)]

-----------------------------------------------------------------------------
(* slugify and markdown *)

Lower(c) == CASE c = "E" -> "e" [] c = "P" -> "p" [] OTHER -> c

IsAlnum(c) == c \in {"e", "p", "1", "E", "P"}

RECURSIVE SlugFrom(_, _, _, _)
SlugFrom(t, k, acc, sep) ==
    IF k > Len(t) THEN acc
    ELSE IF IsAlnum(t[k])
         THEN SlugFrom(t, k + 1,
                       acc \o (IF sep /\ acc # <<>> THEN <<"-">> ELSE <<>>)
                           \o <<Lower(t[k])>>,
                       FALSE)
         ELSE SlugFrom(t, k + 1, acc, TRUE)

Slugify(t) == SlugFrom(t, 1, <<>>, FALSE)

IsLink(w) == w \in {"http://x.example"}

Linkify(w) == IF IsLink(w) THEN "<a href=\"" \o w \o "\">" \o w \o "</a>" ELSE w

Markdown(d) == <<"<p>">> \o [k \in 1..Len(d) |-> Linkify(d[k])] \o <<"</p>">>

Title1 == <<"E", "p", " ", "1", "!">>
Title2 == <<"e", "p", "-", "1">>
Title3 == <<"!">>
Title4 == <<"P">>

Desc1 == <<"see", "http://x.example">>

-----------------------------------------------------------------------------
(* Feed items and feeds *)

AbsentSeq == [has |-> FALSE, v |-> <<>>]
AbsentUrl == [has |-> FALSE, v |-> NoUrl]
AbsentStr == [has |-> FALSE, v |-> ""]
Some(x) == [has |-> TRUE, v |-> x]

\* tag: "absent" no enclosure key; "none" an empty element (None);
\*      "nourl" attributes without @url; "url" attributes with @url
Enclosure(tag, u) == [tag |-> tag, url |-> u]

RawItem(e, t, d) ==
    [enclosure |-> e, title |-> t, description |-> d,
     url |-> AbsentUrl, slug |-> AbsentSeq, file_name |-> AbsentStr]

\* complete items: one without enclosure; UrlA and UrlB share a file name,
\* Title1 and Title2 share a slug; Title3 has no letter or digit.  And items
\* that lack exactly one of the fields read.
Items ==
    {RawItem(Enclosure("absent", NoUrl), Some(Title1), Some(Desc1)),
     RawItem(Enclosure("url", UrlA), Some(Title1), Some(Desc1)),
     RawItem(Enclosure("url", UrlB), Some(Title4), Some(Desc1)),
     RawItem(Enclosure("url", UrlD), Some(Title2), Some(Desc1)),
     RawItem(Enclosure("url", UrlD), Some(Title3), Some(Desc1)),
     RawItem(Enclosure("none", NoUrl), Some(Title1), Some(Desc1)),
     RawItem(Enclosure("nourl", NoUrl), Some(Title1), Some(Desc1)),
     RawItem(Enclosure("url", UrlA), AbsentSeq, Some(Desc1)),
     RawItem(Enclosure("url", UrlA), Some(Title1), AbsentSeq)}

ItemLists == UNION {[1..n -> Items] : n \in 0..MaxItems}

\* channel: the path rss.channel is present; shape: "absent" no item key,
\* "single" one item element (xmltodict gives the record itself, not a list),
\* "list" a list of item records; image: itunes:image/@href
Feed(ch, sh, its, img) == [channel |-> ch, shape |-> sh, items |-> its, image |-> img]

NoFeed == Feed(FALSE, "absent", <<>>, AbsentUrl)

Feeds ==
    {NoFeed}
    \cup {Feed(TRUE, "absent", <<>>, img) : img \in {AbsentUrl, Some(CoverUrl)}}
    \cup {Feed(TRUE, "single", <<it>>, Some(CoverUrl)) : it \in Items}
    \cup {Feed(TRUE, "list", its, Some(CoverUrl)) : its \in ItemLists}
    \cup {Feed(TRUE, "list", <<it>>, AbsentUrl) : it \in Items}

Doc(wf, f) == [wellformed |-> wf, feed |-> f]
Malformed == Doc(FALSE, NoFeed)
RemoteDocs == {Malformed} \cup {Doc(TRUE, f) : f \in Feeds}
\* what a non-success response carries: an error page, XML or not
ErrorPages == {Malformed, Doc(TRUE, NoFeed)}

-----------------------------------------------------------------------------
(* Output tree *)

Path(d, s, n) == [dir |-> d, slug |-> s, name |-> n]
NoPath == Path("", <<>>, "")
AudioDir == Path("audio", <<>>, "")
EpisodeRoot == Path("episode", <<>>, "")
CoverPath == Path("", <<>>, "cover_art.jpg")
SmallPath == Path("", <<>>, "small_cover_art.jpg")
SitemapPath == Path("", <<>>, "sitemap.xml")
FrontPath == Path("", <<>>, "index.html")
AudioPath(fn) == Path("audio", <<>>, fn)
EpisodeDir(slug) == Path("episode", slug, "")
EpisodePath(slug) == Path("episode", slug, "index.html")

Content(k, u, eps, f) == [kind |-> k, url |-> u, eps |-> eps, feed |-> f]
Body(u) == Content("body", u, <<>>, NoFeed)
ErrorBody(u) == Content("errorbody", u, <<>>, NoFeed)
Sentinel == Content("sentinel", NoUrl, <<>>, NoFeed)
Image(u) == Content("image", u, <<>>, NoFeed)
Thumbnail(u) == Content("thumbnail", u, <<>>, NoFeed)

Exists(files, ds, p) == p \in DOMAIN files \/ p \in ds

WriteFile(files, p, c) == [q \in DOMAIN files \cup {p} |-> IF q = p THEN c ELSE files[q]]

EmptyTree == [p \in {} |-> Sentinel]
\* an empty output directory, one with pre-created assets, one with a
\* thumbnail only
InitialTrees ==
    {EmptyTree,
     [p \in {AudioPath("ep.mp3"), CoverPath} |-> Sentinel],
     [p \in {SmallPath} |-> Sentinel]}

Event(op, u, p) == [op |-> op, url |-> u, path |-> p]
Get(u) == Event("GET", u, NoPath)
Parse == Event("PARSE", NoUrl, NoPath)
Write(p) == Event("WRITE", NoUrl, p)

-----------------------------------------------------------------------------
(* process_episodes *)

KeyErrors == {"KeyError:channel", "KeyError:item", "KeyError:enclosure",
              "KeyError:@url", "KeyError:title", "KeyError:description",
              "KeyError:itunes:image"}

HasEnclosure(item) == item.enclosure.tag # "absent"

\* faulty variant: the slug is stored over the title as well
ProcessItem_RewritesTitle(item) ==
    LET a1 == [item EXCEPT !.url = Some(item.enclosure.url)]
        a2 == [a1 EXCEPT !.slug = Some(Slugify(a1.title.v)),
                         !.title = Some(Slugify(a1.title.v))]
        a3 == [a2 EXCEPT !.description = Some(Markdown(a2.description.v))]
        a4 == [a3 EXCEPT !.file_name = Some(Basename(UrlPath(a3.url.v)))]
    IN  CASE item.enclosure.tag = "absent" -> [item |-> item, err |-> "KeyError:enclosure"]
          [] item.enclosure.tag = "none" -> [item |-> item, err |-> "TypeError"]
          [] item.enclosure.tag = "nourl" -> [item |-> item, err |-> "KeyError:@url"]
          [] OTHER ->
                IF ~item.title.has THEN [item |-> a1, err |-> "KeyError:title"]
                ELSE IF ~item.description.has
                     THEN [item |-> a2, err |-> "KeyError:description"]
                     ELSE [item |-> a4, err |-> "none"]

\* lines 56-60 on one item: the item as left behind, and what was raised
ProcessItem(item) ==
    LET a1 == [item EXCEPT !.url = Some(item.enclosure.url)]
        a2 == [a1 EXCEPT !.slug = Some(Slugify(a1.title.v))]
        a3 == [a2 EXCEPT !.description = Some(Markdown(a2.description.v))]
        a4 == [a3 EXCEPT !.file_name = Some(Basename(UrlPath(a3.url.v)))]
    IN  CASE item.enclosure.tag = "absent" -> [item |-> item, err |-> "KeyError:enclosure"]
          [] item.enclosure.tag = "none" -> [item |-> item, err |-> "TypeError"]
          [] item.enclosure.tag = "nourl" -> [item |-> item, err |-> "KeyError:@url"]
          [] OTHER ->
                IF ~item.title.has THEN [item |-> a1, err |-> "KeyError:title"]
                ELSE IF ~item.description.has
                     THEN [item |-> a2, err |-> "KeyError:description"]
                     ELSE [item |-> a4, err |-> "none"]

\* faulty variant: the episode is put in front of the list
AppendEpisode_Prepend(eps, k) == <<k>> \o eps

AppendEpisode(eps, k) == Append(eps, k)

RECURSIVE ProcessItems(_, _, _)
ProcessItems(items, k, eps) ==
    IF k > Len(items) THEN [items |-> items, episodes |-> eps, err |-> "none"]
    ELSE IF ~HasEnclosure(items[k]) THEN ProcessItems(items, k + 1, eps)
    ELSE LET r == ProcessItem(items[k])
             items2 == [items EXCEPT ![k] = r.item]
         IN  IF r.err # "none"
             THEN [items |-> items2, episodes |-> eps, err |-> r.err]
             ELSE ProcessItems(items2, k + 1, AppendEpisode(eps, k))

\* the feed as process_episodes leaves it, the list it returns, what it raises
process_episodes(p) ==
    CASE ~p.channel -> [podcast |-> p, episodes |-> <<>>, err |-> "KeyError:channel"]
      [] p.channel /\ p.shape = "absent" ->
            [podcast |-> p, episodes |-> <<>>, err |-> "KeyError:item"]
      [] p.channel /\ p.shape = "single" ->
            \* the loop runs over the keys of the one item record: the key
            \* 'enclosure' contains 'enclosure', and a string cannot be indexed by it
            [podcast |-> p, episodes |-> <<>>,
             err |-> IF HasEnclosure(p.items[1]) THEN "TypeError" ELSE "none"]
      [] OTHER ->
            LET r == ProcessItems(p.items, 1, <<>>)
            IN  [podcast |-> [p EXCEPT !.items = r.items],
                 episodes |-> r.episodes, err |-> r.err]

\* faulty variant: the handler keeps the episodes extracted before the KeyError
EpisodesOnKeyError_KeepPartial(partial) == partial

\* make_site's handler: except KeyError: episodes = []
EpisodesOnKeyError(partial) == <<>>

Episode(k) == podcast.items[episodes[k]]

-----------------------------------------------------------------------------
(* make_site *)

StageOrder == <<"fetch", "extract", "audio", "cover", "sitemap", "front", "episodes">>

\* faulty variant: the front page is rendered before the sitemap
StageAfter_FrontBeforeSitemap(s) ==
    CASE s = "dirs" -> "fetch"
      [] s = "fetch" -> "extract"
      [] s = "extract" -> "audio"
      [] s = "audio" -> "cover"
      [] s = "cover" -> "front"
      [] s = "front" -> "sitemap"
      [] s = "sitemap" -> "episodes"
      [] s = "episodes" -> "done"

StageAfter(s) ==
    CASE s = "dirs" -> "fetch"
      [] s = "fetch" -> "extract"
      [] s = "extract" -> "audio"
      [] s = "audio" -> "cover"
      [] s = "cover" -> "sitemap"
      [] s = "sitemap" -> "front"
      [] s = "front" -> "episodes"
      [] s = "episodes" -> "done"

Enter(s) == IF stages # <<>> /\ stages[Len(stages)] = s THEN stages ELSE Append(stages, s)

NetOutcomes == {"ok", "status", "unreachable"}
CoverOutcomes == {"image", "notimage", "unreachable"}
RenderOutcomes == {"ok", "fault"}

Init ==
    /\ remote \in RemoteDocs
    /\ fs \in InitialTrees
    /\ dirs = IF AudioPath("ep.mp3") \in DOMAIN fs THEN {AudioDir} ELSE {}
    /\ pc = "dirs"
    /\ i = 0
    /\ podcast = NoFeed
    /\ episodes = <<>>
    /\ run = 1
    /\ err = "none"
    /\ log = <<>>
    /\ stages = <<>>
    /\ parsed0 = NoFeed
    /\ feedStatus = "none"
    /\ extractErr = "none"
    /\ fsStart = fs
    /\ prev = [ok |-> FALSE, parsed |-> NoFeed]

\* an exception leaves make_site: the run ends
Raise(e) == /\ pc' = "failed"
            /\ err' = e

make_dirs ==
    /\ pc = "dirs"
    /\ dirs' = dirs \cup {AudioDir, EpisodeRoot}
    /\ pc' = StageAfter("dirs")
    /\ UNCHANGED <<remote, fs, i, podcast, episodes, run, err, log, stages,
                   parsed0, feedStatus, extractErr, fsStart, prev>>

download_and_parse_feed ==
    /\ pc = "fetch"
    /\ stages' = Enter("fetch")
    /\ \E o \in NetOutcomes :
          /\ feedStatus' = o
          /\ IF o = "unreachable"
             THEN /\ Raise("ConnectionError")
                  /\ log' = Append(log, Get(FeedUrl))
                  /\ UNCHANGED <<podcast, parsed0>>
             ELSE \E body \in (IF o = "ok" THEN {remote} ELSE ErrorPages) :
                    /\ log' = log \o <<Get(FeedUrl), Parse>>
                    /\ IF body.wellformed
                       THEN /\ podcast' = body.feed
                            /\ parsed0' = body.feed
                            /\ pc' = StageAfter("fetch")
                            /\ err' = err
                       ELSE /\ Raise("ExpatError")
                            /\ UNCHANGED <<podcast, parsed0>>
    /\ UNCHANGED <<remote, fs, dirs, i, episodes, run, extractErr, fsStart, prev>>

\* lines 39-42: process_episodes under try / except KeyError
extract_episodes ==
    /\ pc = "extract"
    /\ stages' = Enter("extract")
    /\ LET r == process_episodes(podcast)
       IN  /\ podcast' = r.podcast
           /\ extractErr' = r.err
           /\ IF r.err = "none"
              THEN /\ episodes' = r.episodes
                   /\ pc' = StageAfter("extract")
                   /\ err' = err
              ELSE IF r.err \in KeyErrors
                   THEN /\ episodes' = EpisodesOnKeyError(r.episodes)
                        /\ pc' = StageAfter("extract")
                        /\ err' = err
                   ELSE /\ Raise(r.err)
                        /\ episodes' = episodes
    /\ i' = 0
    /\ UNCHANGED <<remote, fs, dirs, run, log, parsed0, feedStatus, fsStart, prev>>

\* faulty variant: the existence check of download_audio_files is dropped
AudioExists_Never(p) == FALSE

AudioExists(p) == Exists(fs, dirs, p)

\* one iteration of the loop of download_audio_files
download_audio_file ==
    /\ pc = "audio"
    /\ i < Len(episodes)
    /\ stages' = Enter("audio")
    /\ LET episode == Episode(i + 1)
           file_path == AudioPath(episode.file_name.v)
           u == episode.enclosure.url
       IN  IF AudioExists(file_path)
           THEN /\ i' = i + 1
                /\ UNCHANGED <<fs, log, pc, err>>
           ELSE \E o \in NetOutcomes :
                  IF o = "unreachable"
                  THEN /\ Raise("ConnectionError")
                       /\ log' = Append(log, Get(u))
                       /\ UNCHANGED <<fs, i>>
                  ELSE /\ fs' = WriteFile(fs, file_path,
                                          IF o = "ok" THEN Body(u) ELSE ErrorBody(u))
                       /\ log' = log \o <<Get(u), Write(file_path)>>
                       /\ i' = i + 1
                       /\ UNCHANGED <<pc, err>>
    /\ UNCHANGED <<remote, dirs, podcast, episodes, run, parsed0, feedStatus,
                   extractErr, fsStart, prev>>

download_audio_files_return ==
    /\ pc = "audio"
    /\ i = Len(episodes)
    /\ stages' = Enter("audio")
    /\ pc' = StageAfter("audio")
    /\ UNCHANGED <<remote, fs, dirs, i, podcast, episodes, run, err, log,
                   parsed0, feedStatus, extractErr, fsStart, prev>>

\* faulty variant: the existence check names a file the function never writes
CoverSkipKey_Typo == Path("", <<>>, "cover_art.jpeg")

\* the path whose existence makes download_and_resize_cover_image return
CoverSkipKey == CoverPath

\* faulty variant: the thumbnail is saved before the full-size image
CoverWrites_ThumbnailFirst(u) == <<[path |-> SmallPath, content |-> Thumbnail(u)],
                                   [path |-> CoverPath, content |-> Image(u)]>>

\* the two img.save calls, in order
CoverWrites(u) == <<[path |-> CoverPath, content |-> Image(u)],
                    [path |-> SmallPath, content |-> Thumbnail(u)]>>

\* line 44: the argument lookup, then download_and_resize_cover_image
download_and_resize_cover_image ==
    /\ pc = "cover"
    /\ stages' = Enter("cover")
    /\ IF ~podcast.channel THEN Raise("KeyError:channel") /\ UNCHANGED <<fs, log>>
       ELSE IF ~podcast.image.has
            THEN Raise("KeyError:itunes:image") /\ UNCHANGED <<fs, log>>
       ELSE IF Exists(fs, dirs, CoverSkipKey)
            THEN /\ pc' = StageAfter("cover")
                 /\ UNCHANGED <<fs, log, err>>
       ELSE LET u == podcast.image.v
                w == CoverWrites(u)
            IN  \E o \in CoverOutcomes :
                  CASE o = "unreachable" ->
                          /\ Raise("ConnectionError")
                          /\ log' = Append(log, Get(u))
                          /\ fs' = fs
                    [] o = "notimage" ->
                          /\ Raise("UnidentifiedImageError")
                          /\ log' = Append(log, Get(u))
                          /\ fs' = fs
                    [] o = "image" ->
                          /\ fs' = WriteFile(WriteFile(fs, w[1].path, w[1].content),
                                             w[2].path, w[2].content)
                          /\ log' = log \o <<Get(u), Write(w[1].path), Write(w[2].path)>>
                          /\ pc' = StageAfter("cover")
                          /\ err' = err
    /\ UNCHANGED <<remote, dirs, i, podcast, episodes, run, parsed0, feedStatus,
                   extractErr, fsStart, prev>>

EpisodeRecords == [k \in 1..Len(episodes) |-> Episode(k)]

RenderSitemap == Content("sitemap", NoUrl, EpisodeRecords, NoFeed)
RenderFront == Content("frontpage", NoUrl, EpisodeRecords, podcast)
RenderEpisode(e) == Content("episode", NoUrl, <<e>>, podcast)

render_sitemap ==
    /\ pc = "sitemap"
    /\ stages' = Enter("sitemap")
    /\ \E o \in RenderOutcomes :
          IF o = "fault"
          THEN Raise("TemplateError") /\ UNCHANGED <<fs, log>>
          ELSE /\ fs' = WriteFile(fs, SitemapPath, RenderSitemap)
               /\ log' = Append(log, Write(SitemapPath))
               /\ pc' = StageAfter("sitemap")
               /\ err' = err
    /\ UNCHANGED <<remote, dirs, i, podcast, episodes, run, parsed0, feedStatus,
                   extractErr, fsStart, prev>>

render_front_page ==
    /\ pc = "front"
    /\ stages' = Enter("front")
    /\ \E o \in RenderOutcomes :
          IF o = "fault"
          THEN Raise("TemplateError") /\ UNCHANGED <<fs, log>>
          ELSE /\ fs' = WriteFile(fs, FrontPath, RenderFront)
               /\ log' = Append(log, Write(FrontPath))
               /\ pc' = StageAfter("front")
               /\ err' = err
    /\ i' = 0
    /\ UNCHANGED <<remote, dirs, podcast, episodes, run, parsed0, feedStatus,
                   extractErr, fsStart, prev>>

\* one iteration of the loop of render_episodes
render_episode ==
    /\ pc = "episodes"
    /\ i < Len(episodes)
    /\ stages' = Enter("episodes")
    /\ LET episode == Episode(i + 1)
           episode_dir == EpisodeDir(episode.slug.v)
           episode_path == EpisodePath(episode.slug.v)
       IN  /\ dirs' = dirs \cup {episode_dir}
           /\ \E o \in RenderOutcomes :
                IF o = "fault"
                THEN Raise("TemplateError") /\ UNCHANGED <<fs, log, i>>
                ELSE /\ fs' = WriteFile(fs, episode_path, RenderEpisode(episode))
                     /\ log' = Append(log, Write(episode_path))
                     /\ i' = i + 1
                     /\ UNCHANGED <<pc, err>>
    /\ UNCHANGED <<remote, podcast, episodes, run, parsed0, feedStatus,
                   extractErr, fsStart, prev>>

render_episodes_return ==
    /\ pc = "episodes"
    /\ i = Len(episodes)
    /\ stages' = Enter("episodes")
    /\ pc' = StageAfter("episodes")
    /\ UNCHANGED <<remote, fs, dirs, i, podcast, episodes, run, err, log,
                   parsed0, feedStatus, extractErr, fsStart, prev>>

\* the program is started again on the same configuration
rerun ==
    /\ pc \in {"done", "failed"}
    /\ run < MaxRuns
    /\ run' = run + 1
    /\ prev' = [ok |-> pc = "done", parsed |-> parsed0]
    /\ pc' = "dirs"
    /\ i' = 0
    /\ podcast' = NoFeed
    /\ episodes' = <<>>
    /\ err' = "none"
    /\ log' = <<>>
    /\ stages' = <<>>
    /\ parsed0' = NoFeed
    /\ feedStatus' = "none"
    /\ extractErr' = "none"
    /\ fsStart' = fs
    /\ UNCHANGED <<remote, fs, dirs>>

Next ==
    \/ make_dirs
    \/ download_and_parse_feed
    \/ extract_episodes
    \/ download_audio_file
    \/ download_audio_files_return
    \/ download_and_resize_cover_image
    \/ render_sitemap
    \/ render_front_page
    \/ render_episode
    \/ render_episodes_return
    \/ rerun

Spec == Init /\ [][Next]_vars

-----------------------------------------------------------------------------
(* Vocabulary of the properties *)

Range(s) == {s[k] : k \in DOMAIN s}

IsPrefix(s, t) == Len(s) <= Len(t) /\ \A k \in 1..Len(s) : s[k] = t[k]

IsWrite(e) == e.op = "WRITE"

IsAsset(p) == p.dir = "audio" \/ p \in {CoverPath, SmallPath}

IsPage(p) == p.dir = "episode" \/ p \in {SitemapPath, FrontPath}

Written == {e.path : e \in {x \in Range(log) : IsWrite(x)}}

Fetched == {e.url : e \in {x \in Range(log) : x.op = "GET"}}

\* the events a step appends to the log
NewEvents == SubSeq(log', Len(log) + 1, Len(log'))

Extracted == "extract" \in Range(stages)

-----------------------------------------------------------------------------
(* C1: when process_episodes returns for a feed whose item list is a list   *)
(* of item records, the episodes are exactly the items that have an         *)
(* enclosure key, each once, in the order of the feed.                      *)

EnclosureIndices ==
    {k \in 1..Len(parsed0.items) : parsed0.items[k].enclosure.tag # "absent"}

C1_EpisodesAreEnclosureItems ==
    (Extracted /\ parsed0.channel /\ parsed0.shape = "list" /\ extractErr = "none")
        => /\ Range(episodes) = EnclosureIndices
           /\ \A j, k \in 1..Len(episodes) : j < k => episodes[j] < episodes[k]

C1_Witness ==
    /\ Extracted /\ extractErr = "none" /\ parsed0.shape = "list"
    /\ Len(parsed0.items) = 2
    /\ parsed0.items[1].enclosure.tag = "absent"
    /\ parsed0.items[2].enclosure.tag = "url"
    /\ episodes = <<2>>

-----------------------------------------------------------------------------
(* C2: an audio file or cover_art.jpg that exists is never written again:   *)
(* the iteration of download_audio_files that finds its destination present *)
(* issues no GET and writes nothing, so does the cover step that finds      *)
(* cover_art.jpg present, and an asset present when the run started has     *)
(* the same content at every later point of the run.                        *)

C2_Step ==
    /\ \A p \in DOMAIN fs :
          (p.dir = "audio" \/ p = CoverPath) => (p \in DOMAIN fs' /\ fs'[p] = fs[p])
    /\ (pc = "audio" /\ i < Len(episodes)
            /\ Exists(fs, dirs, AudioPath(Episode(i + 1).file_name.v)))
          => (log' = log /\ fs' = fs)
    /\ (pc = "cover" /\ Exists(fs, dirs, CoverPath)) => (log' = log /\ fs' = fs)

C2_Kept ==
    \A p \in DOMAIN fsStart :
        (p.dir = "audio" \/ p = CoverPath) => (p \in DOMAIN fs /\ fs[p] = fsStart[p])

C2_ExistingAssetsUntouched == [](C2_Kept) /\ [][C2_Step]_vars

C2_Witness ==
    /\ run = 1 /\ pc = "done"
    /\ Len(episodes) = 2
    /\ Episode(1).file_name.v = "ep.mp3"
    /\ AudioPath("ep.mp3") \in DOMAIN fsStart
    /\ fs[AudioPath("ep.mp3")] = Sentinel
    /\ fs[CoverPath] = Sentinel
    /\ Fetched = {FeedUrl}

-----------------------------------------------------------------------------
(* C3: in a run that follows a run completed without error and reads the    *)
(* same feed, the only GET is the one of the feed, no audio or cover file   *)
(* is written and each has the content it had when the run started; when    *)
(* the run completes, sitemap.xml, index.html and the page of every episode *)
(* have been written again.                                                 *)

C3_SecondRun == run >= 2 /\ prev.ok /\ feedStatus = "ok" /\ parsed0 = prev.parsed

C3_RerunKeepsAssetsRewritesPages ==
    C3_SecondRun =>
        /\ Fetched \subseteq {FeedUrl}
        /\ \A p \in Written : ~IsAsset(p)
        /\ \A p \in DOMAIN fsStart : IsAsset(p) => (p \in DOMAIN fs /\ fs[p] = fsStart[p])
        /\ pc = "done" =>
              /\ {SitemapPath, FrontPath} \subseteq Written
              /\ \A k \in 1..Len(episodes) : EpisodePath(Episode(k).slug.v) \in Written

C3_Witness ==
    /\ C3_SecondRun /\ run = 2 /\ pc = "done"
    /\ Len(episodes) = 2
    /\ CoverPath \in DOMAIN fs /\ fs[CoverPath] = Image(CoverUrl)
    /\ \E p \in DOMAIN fs : p.dir = "audio" /\ fs[p].kind = "body"

-----------------------------------------------------------------------------
(* C4: the cover step is keyed on cover_art.jpg alone: when it exists the   *)
(* step writes nothing, whether small_cover_art.jpg exists or not;          *)
(* otherwise whatever it writes is cover_art.jpg first and                  *)
(* small_cover_art.jpg second; no step writes small_cover_art.jpg without   *)
(* having written cover_art.jpg just before it.                             *)

C4_Step ==
    LET w == SelectSeq(NewEvents, IsWrite)
    IN  /\ (pc = "cover" /\ Exists(fs, dirs, CoverPath))
              => (fs' = fs /\ NewEvents = <<>>)
        /\ (pc = "cover" /\ ~Exists(fs, dirs, CoverPath))
              => w \in {<<>>, <<Write(CoverPath)>>, <<Write(CoverPath), Write(SmallPath)>>}
        /\ (Write(SmallPath) \in Range(w) \/ (SmallPath \in DOMAIN fs' /\ SmallPath \notin DOMAIN fs))
              => w = <<Write(CoverPath), Write(SmallPath)>>
        /\ (SmallPath \in DOMAIN fs /\ fs'[SmallPath] # fs[SmallPath])
              => w = <<Write(CoverPath), Write(SmallPath)>>

C4_CoverArtIsOneUnit == [][C4_Step]_vars

C4_Witness ==
    /\ run = 1
    /\ SmallPath \in DOMAIN fsStart /\ CoverPath \notin DOMAIN fsStart
    /\ SelectSeq(log, IsWrite) = <<Write(CoverPath), Write(SmallPath)>>
    /\ fs[CoverPath] = Image(CoverUrl)
    /\ fs[SmallPath] = Thumbnail(CoverUrl)

-----------------------------------------------------------------------------
(* C5: a parsed feed without an item list, or without the channel path,     *)
(* does not end the run with an error about the missing list or channel.    *)

C5_MissingListOrChannelTolerated ==
    (Extracted /\ (~parsed0.channel \/ parsed0.shape = "absent"))
        => ~(pc = "failed" /\ err \in {"KeyError:channel", "KeyError:item"})

-----------------------------------------------------------------------------
(* C6: when the feed GET is answered with a non-success status, the run     *)
(* ends there with a network error: the body is not parsed and no later     *)
(* stage runs.                                                              *)

C6_NonSuccessStatusFails ==
    feedStatus = "status"
        => /\ pc = "failed" /\ err = "ConnectionError"
           /\ Parse \notin Range(log)
           /\ stages = <<"fetch">>

-----------------------------------------------------------------------------
(* C7: the stages begun in a run are an initial part of fetch, extract,     *)
(* audio, cover, sitemap, front, episodes, and within a run only grow; once *)
(* an exception has ended the run no stage runs, nothing is fetched and     *)
(* nothing is written until the program is started again; a run ended in    *)
(* an asset download has written no page.                                   *)

C7_Order ==
    /\ IsPrefix(stages, StageOrder)
    /\ (pc = "failed" /\ stages # <<>> /\ stages[Len(stages)] \in {"audio", "cover"})
          => \A p \in Written : ~IsPage(p)
    /\ (pc = "failed") => (err # "none" /\ stages # <<>>)

C7_Step ==
    /\ run' = run => IsPrefix(stages, stages')
    /\ pc = "failed" => (run' = run + 1 /\ fs' = fs /\ log' = <<>> /\ stages' = <<>>)

C7_StagesInOrderErrorsEndRun == [](C7_Order) /\ [][C7_Step]_vars

C7_Witness ==
    /\ pc = "failed" /\ err = "ConnectionError"
    /\ stages = <<"fetch", "extract", "audio">>
    /\ Len(episodes) = 2 /\ i = 1
    /\ Written = {AudioPath("ep.mp3")}

-----------------------------------------------------------------------------
(* C8, as claimed: the feed data structure equals the feed as parsed at     *)
(* every point of the run.                                                  *)

C8_FeedImmutable == podcast = parsed0

(* C8, amended: process_episodes changes the feed in place, and only in    *)
(* the fields url, slug, description and file_name of items that have an    *)
(* enclosure; the channel, the image, the number and order of the items,    *)
(* every item's enclosure and title and every item without an enclosure    *)
(* stay as parsed; no stage after process_episodes changes the feed, and    *)
(* the front page and the episode pages are rendered from the feed as       *)
(* process_episodes left it.                                                *)

C8_Frame ==
    /\ podcast.channel = parsed0.channel
    /\ podcast.shape = parsed0.shape
    /\ podcast.image = parsed0.image
    /\ Len(podcast.items) = Len(parsed0.items)
    /\ \A k \in 1..Len(parsed0.items) :
          /\ podcast.items[k].enclosure = parsed0.items[k].enclosure
          /\ podcast.items[k].title = parsed0.items[k].title
          /\ ~HasEnclosure(parsed0.items[k]) => podcast.items[k] = parsed0.items[k]
    /\ \A p \in Written : (p = FrontPath \/ p.dir = "episode") => fs[p].feed = podcast

C8_Step == (run' = run /\ pc \notin {"dirs", "fetch", "extract"}) => podcast' = podcast

C8_FeedChangedOnlyByExtraction == [](C8_Frame) /\ [][C8_Step]_vars

C8_Witness ==
    /\ pc = "done"
    /\ podcast # parsed0
    /\ Len(episodes) = 1 /\ Len(podcast.items) = 2
    /\ FrontPath \in Written /\ fs[FrontPath].feed = podcast
    /\ fs[FrontPath].feed.items[episodes[1]].slug.has

-----------------------------------------------------------------------------
(* C9: when process_episodes raises KeyError, make_site goes on with no     *)
(* episode: the episodes extracted from earlier items are dropped, no       *)
(* audio is fetched or written, no episode page is written, and the run     *)
(* has gone on to the audio and cover stages instead of ending in the       *)
(* extraction.                                                              *)

C9_KeyErrorMeansNoEpisodes ==
    extractErr \in KeyErrors =>
        /\ episodes = <<>>
        /\ Fetched \subseteq {FeedUrl, CoverUrl}
        /\ \A p \in Written : p.dir \notin {"audio", "episode"}
        /\ pc \in {"audio", "cover", "sitemap", "front", "episodes", "done", "failed"}
        /\ pc = "failed" => stages[Len(stages)] \in {"cover", "sitemap", "front", "episodes"}

C9_Witness ==
    /\ extractErr = "KeyError:title"
    /\ Len(podcast.items) = 2
    /\ podcast.items[1].file_name.has
    /\ episodes = <<>>
    /\ pc = "done"
    /\ Written = {CoverPath, SmallPath, SitemapPath, FrontPath}

-----------------------------------------------------------------------------
(* C10: after a first run from an empty output directory that completes     *)
(* without error, every episode has its own assets: audio/<file_name> holds *)
(* the body fetched from that episode's URL and episode/<slug>/index.html   *)
(* holds the page rendered for that episode.                                *)

C10_EveryEpisodeHasItsOwnAssets ==
    (run = 1 /\ pc = "done" /\ fsStart = EmptyTree) =>
        \A k \in 1..Len(episodes) :
            LET e == Episode(k)
                a == AudioPath(e.file_name.v)
                h == EpisodePath(e.slug.v)
            IN  /\ a \in DOMAIN fs
                /\ fs[a].kind \in {"body", "errorbody"}
                /\ fs[a].url = e.enclosure.url
                /\ h \in DOMAIN fs
                /\ fs[h] = RenderEpisode(e)

====
